---- MODULE Spec2Model ----
(***************************************************************************)
(* Model of the Raddy L7 weather-station driver (bin/user/l7.py):          *)
(* L7Collector.get_data, L7Driver.data_to_packet and the generator         *)
(* L7Driver.genLoopPackets.                                                *)
(*                                                                         *)
(* Conventions.                                                            *)
(*  - A Python value that may be None is a sequence of length <= 1:        *)
(*    None is << >>, a value v is <<v>>.                                   *)
(*  - A reading string is the sequence of its characters, so that float()  *)
(*    and int() are modelled as parsers.                                   *)
(*  - A float is the integer number of hundredths it denotes (57.4 is      *)
(*    5740); readings carry at most two fractional digits.                 *)
(*  - A dict is a function from its keys; the packet is built with :> and  *)
(*    @@.  The JSON document is a record whose two keys hold optional      *)
(*    values, the empty dict being the record with both keys absent.       *)
(***************************************************************************)
EXTENDS Integers, Sequences, FiniteSets, TLC

\* ------------------------------------------------------------------------
\* Bounds of the model
\* ------------------------------------------------------------------------

\* longest generated sensor list (the two docstring documents are added whole)
MaxGroups == 2

\* seconds of wall clock after which no further sleep is taken
MaxClock == 60

\* ------------------------------------------------------------------------
\* Program constants
\* ------------------------------------------------------------------------

max_tries == 3

retry_wait == 10

poll_interval == 10

\* weewx.US
US == 1

None == << >>

Some(v) == <<v>>

\* ------------------------------------------------------------------------
\* float() and int() on a reading string
\* ------------------------------------------------------------------------

Digits == {"0", "1", "2", "3", "4", "5", "6", "7", "8", "9"}

DigitVal(c) ==
    CASE c = "0" -> 0 [] c = "1" -> 1 [] c = "2" -> 2 [] c = "3" -> 3
      [] c = "4" -> 4 [] c = "5" -> 5 [] c = "6" -> 6 [] c = "7" -> 7
      [] c = "8" -> 8 [] c = "9" -> 9

IsSign(c) == c \in {"+", "-"}

\* the characters of s after an optional leading sign
Unsigned(s) == IF Len(s) > 0 /\ IsSign(s[1]) THEN Tail(s) ELSE s

Signum(s) == IF Len(s) > 0 /\ s[1] = "-" THEN -1 ELSE 1

AllDigits(s) == \A i \in 1..Len(s) : s[i] \in Digits

RECURSIVE DigitsValue(_)
DigitsValue(s) ==
    IF Len(s) = 0 THEN 0
    ELSE 10 * DigitsValue(SubSeq(s, 1, Len(s) - 1)) + DigitVal(s[Len(s)])

DotAt(s) == {i \in 1..Len(s) : s[i] = "."}

\* the first two fractional digits, as hundredths
FracHundredths(f) ==
    (IF Len(f) >= 1 THEN 10 * DigitVal(f[1]) ELSE 0)
    + (IF Len(f) >= 2 THEN DigitVal(f[2]) ELSE 0)

\* int(s): an optional sign and one or more digits; None stands for ValueError
py_int(s) ==
    LET u == Unsigned(s) IN
    IF Len(u) > 0 /\ AllDigits(u)
    THEN Some(Signum(s) * 100 * DigitsValue(u))
    ELSE None

\* float(s): an optional sign, digits with at most one decimal point and at
\* least one digit; None stands for ValueError
py_float(s) ==
    LET u == Unsigned(s)
        dots == DotAt(u)
    IN  IF dots = {}
        THEN IF Len(u) > 0 /\ AllDigits(u)
             THEN Some(Signum(s) * 100 * DigitsValue(u))
             ELSE None
        ELSE IF Cardinality(dots) > 1 THEN None
        ELSE LET d == CHOOSE i \in dots : TRUE
                 ip == SubSeq(u, 1, d - 1)
                 fp == SubSeq(u, d + 1, Len(u))
             IN  IF AllDigits(ip) /\ AllDigits(fp) /\ Len(ip) + Len(fp) > 0
                 THEN Some(Signum(s) * (100 * DigitsValue(ip) + FracHundredths(fp)))
                 ELSE None

\* ------------------------------------------------------------------------
\* L7Driver.data_to_packet
\* ------------------------------------------------------------------------

\* packet[k] = v
Put(packet, k, v) == (k :> v) @@ packet

Has(packet, k) == k \in DOMAIN packet

\* the if/elif chain on item[0] inside the branch of a title: the packet key
\* that the entry is stored under, "" when no branch matches
FieldOf(title, label) ==
    CASE title = "Indoor" /\ label = "Temperature" -> "inTemp"
      [] title = "Indoor" /\ label = "Humidity" -> "inHumidity"
      [] title = "Outdoor" /\ label = "Temperature" -> "outTemp"
      [] title = "Outdoor" /\ label = "Humidity" -> "outHumidity"
      [] title = "Pressure" /\ label = "Absolute" -> "pressure"
      [] title = "Wind Speed" /\ label = "Wind" -> "windSpeed"
      [] title = "Wind Speed" /\ label = "Gust" -> "windGuest"
      [] title = "Wind Speed" /\ label = "Direction Average 2 Minute" -> "windDir"
      [] title = "Rainfall" /\ label = "Rate" -> "rain_rate"
      [] title = "Rainfall" /\ label = "Hour" -> "rain_hour"
      [] title = "Rainfall" /\ label = "Day" -> "rain_day"
      [] title = "Rainfall" /\ label = "Week" -> "rain_week"
      [] title = "Rainfall" /\ label = "Month" -> "rain_month"
      [] title = "Rainfall" /\ label = "Year" -> "rain_year"
      [] title = "Rainfall" /\ label = "Total" -> "rain_total"
      [] title = "Solar" /\ label = "Light" -> "luminosity"
      [] title = "Solar" /\ label = "UVI" -> "UV"
      [] OTHER -> ""

\* the conversion applied to item[1] in that branch
Convert(field, reading) ==
    IF field \in {"inHumidity", "outHumidity"} THEN py_int(reading)
    ELSE py_float(reading)

\* one iteration of "for item in items" in the branch of title.  st is the
\* frame of data_to_packet: packet, the locals items and rain_total, and the
\* exception raised so far ("" for none)
ItemStep(title, item, st) ==
    LET field == FieldOf(title, item[1])
        v == Convert(field, item[2])
    IN  IF field = "" THEN st
        ELSE IF v = None THEN [st EXCEPT !.exc = "ValueError"]
        ELSE IF field = "rain_total"
             THEN [st EXCEPT !.rain_total = v,
                             !.packet = Put(st.packet, "rain_total", v[1])]
             ELSE [st EXCEPT !.packet = Put(st.packet, field, v[1])]

RECURSIVE ItemLoop(_, _, _, _)
ItemLoop(title, items, i, st) ==
    IF i > Len(items) \/ st.exc # "" THEN st
    ELSE ItemLoop(title, items, i + 1, ItemStep(title, items[i], st))

\* variant of RainDelta: a missing last total counts as zero
RainDelta_FromZero(st, last_rain_total) ==
    IF st.exc = "" /\ st.rain_total # None
    THEN [st EXCEPT !.packet =
            Put(st.packet, "rain",
                st.rain_total[1]
                - (IF last_rain_total = None THEN 0 ELSE last_rain_total[1]))]
    ELSE st

\* variant of RainDelta: a negative delta is clamped to zero
RainDelta_Clamped(st, last_rain_total) ==
    IF st.exc = "" /\ st.rain_total # None /\ last_rain_total # None
    THEN [st EXCEPT !.packet =
            Put(st.packet, "rain",
                IF st.rain_total[1] < last_rain_total[1] THEN 0
                ELSE st.rain_total[1] - last_rain_total[1])]
    ELSE st

\* "if rain_total is not None and last_rain_total is not None" after the
\* Rainfall item loop
RainDelta(st, last_rain_total) ==
    IF st.exc = "" /\ st.rain_total # None /\ last_rain_total # None
    THEN [st EXCEPT !.packet = Put(st.packet, "rain",
                                   st.rain_total[1] - last_rain_total[1])]
    ELSE st

\* the list that the Solar branch iterates: the local items, which that
\* branch never assigns
SolarItems(sensor, st) == st.items

\* one iteration of "for sensor in sensor_list"
SensorStep(sensor, st, last_rain_total) ==
    LET title == sensor.title IN
    IF title \in {"Indoor", "Outdoor", "Pressure", "Wind Speed"}
    THEN ItemLoop(title, sensor.list, 1, [st EXCEPT !.items = Some(sensor.list)])
    ELSE IF title = "Rainfall"
    THEN RainDelta(ItemLoop(title, sensor.list, 1,
                            [st EXCEPT !.items = Some(sensor.list),
                                       !.rain_total = None]),
                   last_rain_total)
    ELSE IF title = "Solar"
    THEN LET items == SolarItems(sensor, st) IN
         IF items = None THEN [st EXCEPT !.exc = "UnboundLocalError"]
         ELSE ItemLoop(title, items[1], 1, st)
    ELSE st

RECURSIVE SensorLoop(_, _, _, _)
SensorLoop(sensor_list, i, st, last_rain_total) ==
    IF i > Len(sensor_list) \/ st.exc # "" THEN st
    ELSE SensorLoop(sensor_list, i + 1,
                    SensorStep(sensor_list[i], st, last_rain_total),
                    last_rain_total)

BatterySentinel == "All battery are ok"

\* variant of BatteryStep: any other status is reported as battery = 1
BatteryStep_Alarm(doc, st) ==
    LET battery == IF doc.battery = None THEN [list |-> None] ELSE doc.battery[1]
        batteries == IF battery.list = None THEN << >> ELSE battery.list[1]
    IN  IF st.exc = "" /\ Len(batteries) > 0
        THEN [st EXCEPT !.packet =
                Put(st.packet, "battery",
                    IF batteries[1] = BatterySentinel THEN 0 ELSE 1)]
        ELSE st

\* battery = data.get('battery', {}); batteries = battery.get('list', [])
BatteryStep(doc, st) ==
    LET battery == IF doc.battery = None THEN [list |-> None] ELSE doc.battery[1]
        batteries == IF battery.list = None THEN << >> ELSE battery.list[1]
    IN  IF st.exc = "" /\ Len(batteries) > 0 /\ batteries[1] = BatterySentinel
        THEN [st EXCEPT !.packet = Put(st.packet, "battery", 0)]
        ELSE st

\* int(time.time() + 0.5) for a clock that reads now whole seconds
Timestamp(now) == (10 * now + 5) \div 10

\* "if not data": None or the empty dict
Falsy(data) == data = None \/ (data[1].sensor = None /\ data[1].battery = None)

\* variant of data_to_packet: no "if not data" test, data.get on None raises
data_to_packet_NoGuard(data, last_rain_total, now) ==
    LET st0 == [packet |-> ("dateTime" :> Timestamp(now)) @@ ("usUnits" :> US),
                items |-> None, rain_total |-> None, exc |-> ""]
    IN  IF data = None THEN [st0 EXCEPT !.exc = "AttributeError"]
        ELSE LET doc == data[1]
                 sensor_list == IF doc.sensor = None THEN << >> ELSE doc.sensor[1]
             IN  BatteryStep(doc, SensorLoop(sensor_list, 1, st0, last_rain_total))

\* data_to_packet(data, last_rain_total) called when the clock reads now.
\* The result is the frame at the return or at the raise: exc = "" and packet
\* the returned dict, or exc the exception that propagates to the caller.
data_to_packet(data, last_rain_total, now) ==
    LET st0 == [packet |-> ("dateTime" :> Timestamp(now)) @@ ("usUnits" :> US),
                items |-> None, rain_total |-> None, exc |-> ""]
    IN  IF Falsy(data) THEN st0
        ELSE LET doc == data[1]
                 sensor_list == IF doc.sensor = None THEN << >> ELSE doc.sensor[1]
             IN  BatteryStep(doc, SensorLoop(sensor_list, 1, st0, last_rain_total))

\* ------------------------------------------------------------------------
\* Station documents (the values json.loads can return)
\* ------------------------------------------------------------------------

Entry(label, reading, unit) == <<label, reading, unit>>

Group(title, list) == [title |-> title, list |-> list]

Doc(sensor, battery) == [sensor |-> sensor, battery |-> battery]

\* a reading the station shows for a sensor that has no value
Dashes == <<"-", "-">>

IndoorList == <<Entry("Temperature", <<"5", "7", ".", "4">>, "F"),
                Entry("Humidity", <<"8", "1">>, "%")>>

OutdoorList == <<Entry("Temperature", <<"5", "4", ".", "7">>, "F"),
                 Entry("Humidity", <<"9", "4">>, "%")>>

PressureList == <<Entry("Absolute", <<"2", "9", ".", "7", "6">>, "inhg"),
                  Entry("Relative", <<"2", "9", ".", "6", "2">>, "inhg")>>

WindList == <<Entry("Max Daily Gust", <<"5", ".", "1">>, "mph"),
              Entry("Wind", <<"1", ".", "1">>, "mph"),
              Entry("Gust", <<"1", ".", "6">>, "mph"),
              Entry("Direction", <<"5", "6">>, "deg"),
              Entry("Wind Average 2 Minute", <<"1", ".", "3">>, "mph"),
              Entry("Direction Average 2 Minute", <<"2", "8", "0">>, "deg"),
              Entry("Wind Average 10 Minute", <<"1", ".", "3">>, "mph"),
              Entry("Direction Average 10 Minute", <<"5">>, "deg")>>

RainList == <<Entry("Rate", <<"0", ".", "0", "7">>, "inch/hr"),
              Entry("Hour", <<"0", ".", "0", "2">>, "inch"),
              Entry("Day", <<"0", ".", "0", "2">>, "inch"),
              Entry("Week", <<"0", ".", "5", "3">>, "inch"),
              Entry("Month", <<"0", ".", "5", "6">>, "inch"),
              Entry("Year", <<"0", ".", "5", "6">>, "inch"),
              Entry("Total", <<"0", ".", "5", "6">>, "inch")>>

SolarList == <<Entry("Light", <<"0", ".", "0">>, "w/m2"),
               Entry("UVI", <<"0", ".", "0">>, "")>>

BatteryOk == Some([list |-> Some(<<BatterySentinel>>)])

\* docstring: console that is not bound to a sensor cluster
ExampleUnbound ==
    Doc(Some(<<Group("Indoor",
                     <<Entry("Temperature", <<"6", "9", ".", "3">>, "F"),
                       Entry("Humidity", <<"3", "8">>, "%")>>),
               Group("Pressure",
                     <<Entry("Absolute", <<"3", "0", ".", "0", "4">>, "inhg"),
                       Entry("Relative", <<"2", "9", ".", "9", "1">>, "inhg")>>)>>),
        None)

\* docstring: console that is bound to a sensor cluster
ExampleBound ==
    Doc(Some(<<Group("Indoor", IndoorList), Group("Outdoor", OutdoorList),
               Group("Pressure", PressureList), Group("Wind Speed", WindList),
               Group("Rainfall", RainList), Group("Solar", SolarList)>>),
        BatteryOk)

\* the same list with the reading of one label replaced
RECURSIVE WithReading(_, _, _)
WithReading(list, label, reading) ==
    IF Len(list) = 0 THEN << >>
    ELSE <<IF Head(list)[1] = label
           THEN Entry(label, reading, Head(list)[3])
           ELSE Head(list)>> \o WithReading(Tail(list), label, reading)

RainRateTotal(total) ==
    <<Entry("Rate", <<"0", ".", "0", "7">>, "inch/hr"),
      Entry("Total", total, "inch")>>

Titles == {"Indoor", "Outdoor", "Pressure", "Wind Speed", "Rainfall", "Solar",
           "Lightning"}

\* the entry lists a group of each title is drawn from: the docstring's list,
\* lists with an unparseable reading, lists with entries missing
Variants(title) ==
    CASE title = "Indoor" ->
           {IndoorList, WithReading(IndoorList, "Temperature", Dashes)}
      [] title = "Outdoor" ->
           {OutdoorList, WithReading(OutdoorList, "Humidity", <<"9", "3", ".", "5">>)}
      [] title = "Pressure" -> {PressureList}
      [] title = "Wind Speed" -> {WindList}
      [] title = "Rainfall" ->
           {RainList, SubSeq(RainList, 1, 1),
            RainRateTotal(<<"1", "0", ".", "6", "5">>),
            RainRateTotal(<<"1", "6", ".", "3", "7">>),
            WithReading(RainList, "Day", Dashes)}
      [] title = "Solar" -> {SolarList}
      [] OTHER -> {<<Entry("Strikes", <<"3">>, "")>>}

Groups == UNION {{Group(t, l) : l \in Variants(t)} : t \in Titles}

\* sensor lists of at most MaxGroups groups with distinct titles
RECURSIVE SensorLists(_)
SensorLists(n) ==
    IF n = 0 THEN {<< >>}
    ELSE LET shorter == SensorLists(n - 1) IN
         shorter \cup
         {Append(sl, g) : sl \in {x \in shorter : Len(x) = n - 1}, g \in Groups}

DistinctTitles(sl) ==
    \A i, j \in 1..Len(sl) : i # j => sl[i].title # sl[j].title

Batteries == {None, BatteryOk,
              Some([list |-> Some(<<"Low battery">>)]),
              Some([list |-> Some(<< >>)]),
              Some([list |-> None])}

\* the parsed documents: the empty dict, the generated ones and the two of
\* the docstring.  A sensor list of at most one group comes with every
\* battery value, a longer one without battery and with the all-ok status.
Docs ==
    {Doc(None, None), ExampleUnbound, ExampleBound}
    \cup {Doc(Some(sl), b) :
            sl \in {x \in SensorLists(MaxGroups) : DistinctTitles(x)},
            b \in {None, BatteryOk}}
    \cup {Doc(Some(sl), b) : sl \in SensorLists(1), b \in Batteries}
    \cup {Doc(None, b) : b \in Batteries}

\* ------------------------------------------------------------------------
\* L7Collector.get_data and L7Driver.genLoopPackets
\* ------------------------------------------------------------------------

VARIABLES
    pc,               \* where genLoopPackets stands
    tries,            \* loop variable of get_data
    data,             \* what get_data returned
    pkt,              \* what data_to_packet returned
    last_rain_total,  \* self._last_rain_total
    clock,            \* wall clock, seconds
    events,           \* what happened since the last poll sleep, in order
    out,              \* the packet the generator is suspended on, if any
    exc,              \* the exception that ended the generator, "" for none
    prev_total,       \* history: rain_total of the previous pass's packet
    first_total,      \* history: the first rain_total any packet held
    rain_sum,         \* history: the sum of the rain of the packets yielded
    decreased         \* history: some rain_total was below the one before it

hist == <<prev_total, first_total, rain_sum, decreased>>

vars == <<pc, tries, data, pkt, last_rain_total, clock, events, out, exc, hist>>

\* what urlopen(...).read() can raise
TransportErrors == {"socket.error", "socket.timeout", "URLError", "HTTPError"}

\* variant of Caught: HTTPError is not listed
Caught_NoHTTPError(e) == e \in {"socket.error", "socket.timeout", "URLError"}

\* the except clause of get_data
Caught(e) == e \in {"socket.error", "socket.timeout", "URLError", "HTTPError"}

\* the else clause of the try statement runs when the try body ends without
\* raising and without returning
ElseRuns(returned, raised) == ~returned /\ ~raised

\* L7Driver.__init__, and genLoopPackets entered
Init ==
    /\ pc = "get_data"
    /\ tries = 0
    /\ data = None
    /\ pkt = << >>
    /\ last_rain_total = None
    /\ clock = 0
    /\ events = << >>
    /\ out = None
    /\ exc = ""
    /\ prev_total = None
    /\ first_total = None
    /\ rain_sum = 0
    /\ decreased = FALSE

\* variant of Except: the handler logs and retries at once, without sleeping
Except_NoSleep(e) ==
    IF Caught(e)
    THEN /\ events' = events \o <<"attempt_failed", "logerr_attempt">>
         /\ tries' = tries + 1
         /\ UNCHANGED <<pc, data, pkt, last_rain_total, clock, out, exc, hist>>
    ELSE /\ events' = events \o <<"attempt_failed">>
         /\ pc' = "raised"
         /\ exc' = e
         /\ UNCHANGED <<tries, data, pkt, last_rain_total, clock, out, hist>>

\* variant of Except: the handler does not sleep after the last attempt
Except_SkipLastSleep(e) ==
    IF Caught(e)
    THEN IF tries + 1 < max_tries
         THEN /\ clock + retry_wait <= MaxClock
              /\ events' = events \o
                    <<"attempt_failed", "logerr_attempt", "sleep_retry">>
              /\ clock' = clock + retry_wait
              /\ tries' = tries + 1
              /\ UNCHANGED <<pc, data, pkt, last_rain_total, out, exc, hist>>
         ELSE /\ events' = events \o <<"attempt_failed", "logerr_attempt">>
              /\ tries' = tries + 1
              /\ UNCHANGED <<pc, data, pkt, last_rain_total, clock, out, exc, hist>>
    ELSE /\ events' = events \o <<"attempt_failed">>
         /\ pc' = "raised"
         /\ exc' = e
         /\ UNCHANGED <<tries, data, pkt, last_rain_total, clock, out, hist>>

\* an exception e leaves the try body of get_data
Except(e) ==
    IF Caught(e)
    THEN /\ clock + retry_wait <= MaxClock
         /\ events' = events \o <<"attempt_failed", "logerr_attempt", "sleep_retry">>
         /\ clock' = clock + retry_wait
         /\ tries' = tries + 1
         /\ UNCHANGED <<pc, data, pkt, last_rain_total, out, exc, hist>>
    ELSE /\ events' = events \o <<"attempt_failed">>
         /\ pc' = "raised"
         /\ exc' = e
         /\ UNCHANGED <<tries, data, pkt, last_rain_total, clock, out, hist>>

\* get_data, one pass of the for loop: urlopen and json.loads succeed
AttemptReturns ==
    /\ pc = "get_data"
    /\ tries < max_tries
    /\ \E doc \in Docs :
         /\ data' = Some(doc)
         /\ events' = events \o
               (IF ElseRuns(TRUE, FALSE)
                THEN <<"attempt_ok", "logerr_exhausted">> ELSE <<"attempt_ok">>)
    /\ pc' = "data_to_packet"
    /\ UNCHANGED <<tries, pkt, last_rain_total, clock, out, exc, hist>>

\* get_data, one pass of the for loop: urlopen raises
AttemptTransportError ==
    /\ pc = "get_data"
    /\ tries < max_tries
    /\ \E e \in TransportErrors : Except(e)

\* get_data, one pass of the for loop: the body is read and json.loads raises
AttemptBadBody ==
    /\ pc = "get_data"
    /\ tries < max_tries
    /\ Except("ValueError")

\* get_data: the for loop has run out, return None
ReturnNone ==
    /\ pc = "get_data"
    /\ tries = max_tries
    /\ data' = None
    /\ events' = Append(events, "return_none")
    /\ pc' = "data_to_packet"
    /\ UNCHANGED <<tries, pkt, last_rain_total, clock, out, exc, hist>>

\* pkt = self.data_to_packet(data, self._last_rain_total)
Translate ==
    /\ pc = "data_to_packet"
    /\ LET r == data_to_packet(data, last_rain_total, clock) IN
       IF r.exc = ""
       THEN /\ pkt' = r.packet
            /\ pc' = "update"
            /\ events' = Append(events, "translated")
            /\ exc' = exc
       ELSE /\ pkt' = pkt
            /\ pc' = "raised"
            /\ events' = Append(events, "translate_raised")
            /\ exc' = r.exc
    /\ UNCHANGED <<tries, data, last_rain_total, clock, out, hist>>

\* variant of NextRainTotal: the assignment is not guarded, a packet without
\* rain_total resets the total to None
NextRainTotal_Reset(packet, last) ==
    IF Has(packet, "rain_total") THEN Some(packet["rain_total"]) ELSE None

\* variant of NextRainTotal: the packet is asked for the key rain
NextRainTotal_RainKey(packet, last) ==
    IF Has(packet, "rain") THEN Some(packet["rain"]) ELSE last

\* rain_total = pkt.get('rain_total'), and the assignment under the if
NextRainTotal(packet, last) ==
    IF Has(packet, "rain_total") THEN Some(packet["rain_total"]) ELSE last

UpdateRainTotal ==
    /\ pc = "update"
    /\ last_rain_total' = NextRainTotal(pkt, last_rain_total)
    /\ events' = Append(events, "updated")
    /\ first_total' = IF first_total = None THEN NextRainTotal(pkt, None)
                      ELSE first_total
    /\ decreased' = (\/ decreased
                     \/ /\ Has(pkt, "rain_total")
                        /\ last_rain_total # None
                        /\ pkt["rain_total"] < last_rain_total[1])
    /\ pc' = "yield"
    /\ UNCHANGED <<tries, data, pkt, clock, out, exc, prev_total, rain_sum>>

\* if pkt: yield pkt
Yield ==
    /\ pc = "yield"
    /\ IF DOMAIN pkt # {}
       THEN /\ out' = Some(pkt)
            /\ events' = Append(events, "yielded")
            /\ rain_sum' = rain_sum + (IF Has(pkt, "rain") THEN pkt["rain"] ELSE 0)
       ELSE UNCHANGED <<out, events, rain_sum>>
    /\ pc' = "sleep"
    /\ UNCHANGED <<tries, data, pkt, last_rain_total, clock, exc,
                   prev_total, first_total, decreased>>

\* variant of Sleep: the next pass starts at once, without time.sleep
Sleep_NoSleep ==
    /\ pc = "sleep"
    /\ events' = << >>
    /\ tries' = 0
    /\ data' = None
    /\ pkt' = << >>
    /\ out' = None
    /\ prev_total' = IF Has(pkt, "rain_total") THEN Some(pkt["rain_total"]) ELSE None
    /\ pc' = "get_data"
    /\ UNCHANGED <<last_rain_total, clock, exc, first_total, rain_sum, decreased>>

\* the host asks for the next packet: time.sleep(self._poll_interval), then
\* the next pass of "while True" calls get_data.  The locals data and pkt
\* are dead until that pass assigns them again.
Sleep ==
    /\ pc = "sleep"
    /\ clock + poll_interval <= MaxClock
    /\ clock' = clock + poll_interval
    /\ events' = <<"sleep_poll">>
    /\ tries' = 0
    /\ data' = None
    /\ pkt' = << >>
    /\ out' = None
    /\ prev_total' = IF Has(pkt, "rain_total") THEN Some(pkt["rain_total"]) ELSE None
    /\ pc' = "get_data"
    /\ UNCHANGED <<last_rain_total, exc, first_total, rain_sum, decreased>>

Next ==
    \/ AttemptReturns
    \/ AttemptTransportError
    \/ AttemptBadBody
    \/ ReturnNone
    \/ Translate
    \/ UpdateRainTotal
    \/ Yield
    \/ Sleep

Spec == Init /\ [][Next]_vars

PCs == {"get_data", "data_to_packet", "update", "yield", "sleep", "raised"}

TypeOK ==
    /\ pc \in PCs
    /\ tries \in 0..max_tries
    /\ clock \in 0..MaxClock
    /\ Len(last_rain_total) <= 1
    /\ Len(data) <= 1
    /\ Len(out) <= 1

\* ------------------------------------------------------------------------
\* Vocabulary of the properties
\* ------------------------------------------------------------------------

Last(seq) == seq[Len(seq)]

\* data_to_packet has returned and its packet is in pkt, last_rain_total
\* still being the argument it was called with
Translated == pc = "update"

\* the exception that ended the generator left get_data / data_to_packet
RaisedInGetData == pc = "raised" /\ Last(events) = "attempt_failed"

RaisedInTranslate == pc = "raised" /\ Last(events) = "translate_raised"

\* the groups of the document in data
SensorGroups ==
    IF data = None \/ data[1].sensor = None THEN {}
    ELSE {data[1].sensor[1][i] : i \in 1..Len(data[1].sensor[1])}

\* the (title, label, reading) triples of the document in data
SensorEntries ==
    UNION {{<<g.title, g.list[i][1], g.list[i][2]>> : i \in 1..Len(g.list)} :
           g \in SensorGroups}

\* the readings of the Rainfall group's Total entries
ReportedTotals ==
    {e[3] : e \in {x \in SensorEntries : x[1] = "Rainfall" /\ x[2] = "Total"}}

\* the events of the get_data call of this pass
GetDataEvents ==
    IF Len(events) > 0 /\ events[1] = "sleep_poll" THEN Tail(events) ELSE events

Count(seq, set) == Cardinality({i \in 1..Len(seq) : seq[i] \in set})

\* k failed attempts, each logged and followed by one retry sleep
RECURSIVE FailedAttempts(_)
FailedAttempts(k) ==
    IF k = 0 THEN << >>
    ELSE FailedAttempts(k - 1) \o <<"attempt_failed", "logerr_attempt", "sleep_retry">>

\* ------------------------------------------------------------------------
\* Properties
\* ------------------------------------------------------------------------

\* C1: the polling loop is never terminated by an error: whatever the
\* outcome of a pass (fetch succeeds, transport failure, body that is not
\* JSON, non-numeric reading, missing groups), no exception leaves
\* genLoopPackets.
C1_LoopNeverRaises == pc # "raised" /\ exc = ""

\* C2: rain delta rule.  The packet returned by data_to_packet has the key
\* rain iff the Rainfall group has a Total entry and last_rain_total is not
\* None, and then rain is that Total minus last_rain_total; rain_total is in
\* the packet whenever a Total is reported.
C2_RainDeltaRule ==
    Translated =>
        /\ Has(pkt, "rain") <=> (ReportedTotals # {} /\ last_rain_total # None)
        /\ Has(pkt, "rain") =>
             \E r \in ReportedTotals :
                 pkt["rain"] = py_float(r)[1] - last_rain_total[1]
        /\ ReportedTotals # {} =>
             /\ Has(pkt, "rain_total")
             /\ \E r \in ReportedTotals : pkt["rain_total"] = py_float(r)[1]

\* the docstring-sized example: last total 10.65, new Total 16.37, rain 5.72
C2_Witness ==
    /\ Translated
    /\ last_rain_total = Some(1065)
    /\ Has(pkt, "rain") /\ pkt["rain"] = 572 /\ pkt["rain_total"] = 1637

\* C3 as stated: last_rain_total is None on every pass whose previous pass
\* had no rain total, so a pass that reports a Total right after a pass
\* without one emits no rain.
C3_NoRainAfterNoData ==
    (pc \in {"data_to_packet", "update"} /\ prev_total = None) =>
        /\ last_rain_total = None
        /\ pc = "update" => ~Has(pkt, "rain")

\* C3 amended: last_rain_total is None exactly until some packet has held a
\* rain_total and is never None afterwards, also across passes without
\* data; while it is None the packet has no rain; a pass that reports a
\* Total after a pass without one emits rain = Total - the last total
\* reported before, when there is one.
C3_NullOnlyBeforeFirstTotal ==
    /\ (last_rain_total = None) <=> (first_total = None)
    /\ (Translated /\ last_rain_total = None) => ~Has(pkt, "rain")
    /\ (Translated /\ prev_total = None /\ last_rain_total # None
          /\ Has(pkt, "rain_total")) =>
         /\ Has(pkt, "rain")
         /\ pkt["rain"] = pkt["rain_total"] - last_rain_total[1]

C3_Witness ==
    /\ Translated
    /\ prev_total = None
    /\ first_total # None
    /\ Has(pkt, "rain")

\* C4: last_rain_total is None at construction; the update step of a pass
\* sets it to the packet's rain_total when the packet has one and leaves it
\* unchanged otherwise; no other step (get_data, data_to_packet, yield,
\* sleep) changes it; and a packet built from an empty document holds
\* nothing of an earlier pass.
C4_UpdateRule ==
    /\ last_rain_total = None
    /\ [][/\ pc = "update" =>
                last_rain_total' = IF "rain_total" \in DOMAIN pkt
                                   THEN <<pkt["rain_total"]>>
                                   ELSE last_rain_total
          /\ pc # "update" => last_rain_total' = last_rain_total
          /\ (pc' = "update" /\ Falsy(data')) =>
                DOMAIN pkt' = {"dateTime", "usUnits"}]_vars

\* a pass without a rain total has gone through the update and the total of
\* an earlier pass is still there
C4_Witness ==
    /\ pc = "yield"
    /\ ~Has(pkt, "rain_total")
    /\ last_rain_total # None

\* C5: get_data makes at most max_tries attempts per call; when every
\* attempt ends in a transport failure it returns None, and no transport
\* failure ever raises to the caller.
C5_BoundedRetriesThenNone ==
    /\ Count(GetDataEvents, {"attempt_ok", "attempt_failed"}) <= max_tries
    /\ exc \notin TransportErrors
    /\ (pc = "data_to_packet" /\ Count(events, {"attempt_ok"}) = 0) =>
         /\ data = None
         /\ Count(GetDataEvents, {"attempt_failed"}) = max_tries

C5_Witness ==
    /\ pc = "data_to_packet"
    /\ data = None
    /\ Count(GetDataEvents, {"attempt_failed"}) = 3

\* C6: a response body that is not valid JSON is handled like a transport
\* failure: get_data does not raise.
C6_BadBodyDoesNotRaise == ~(RaisedInGetData /\ exc = "ValueError")

\* the documented mapping: (group title, entry label, output field)
MappingTable ==
    {<<"Indoor", "Temperature", "inTemp">>,
     <<"Indoor", "Humidity", "inHumidity">>,
     <<"Outdoor", "Temperature", "outTemp">>,
     <<"Outdoor", "Humidity", "outHumidity">>,
     <<"Pressure", "Absolute", "pressure">>,
     <<"Wind Speed", "Wind", "windSpeed">>,
     <<"Wind Speed", "Gust", "windGust">>,
     <<"Wind Speed", "Direction Average 2 Minute", "windDir">>,
     <<"Rainfall", "Rate", "rain_rate">>,
     <<"Rainfall", "Hour", "rain_hour">>,
     <<"Rainfall", "Day", "rain_day">>,
     <<"Rainfall", "Week", "rain_week">>,
     <<"Rainfall", "Month", "rain_month">>,
     <<"Rainfall", "Year", "rain_year">>,
     <<"Rainfall", "Total", "rain_total">>,
     <<"Solar", "Light", "luminosity">>,
     <<"Solar", "UVI", "UV">>}

\* the (output field, reading) pairs the table gives for the document in data
MappedReadings ==
    {<<me[1][3], me[2][3]>> :
        me \in {x \in MappingTable \X SensorEntries :
                  x[1][1] = x[2][1] /\ x[1][2] = x[2][2]}}

\* the output fields of the table that belong to a group title
FieldsOfTitle(title) == {m[3] : m \in {x \in MappingTable : x[1] = title}}

PresentTitles == {g.title : g \in SensorGroups}

\* C7: for a well-formed document the packet's fields, besides dateTime,
\* usUnits, rain and battery, are exactly the output fields of the mapping
\* table for the (title, label) pairs present, each holding its reading.
C7_ExactlyTheMappedFields ==
    Translated =>
        /\ DOMAIN pkt \ {"dateTime", "usUnits", "rain", "battery"}
             = {fr[1] : fr \in MappedReadings}
        /\ \A fr \in MappedReadings : pkt[fr[1]] = py_float(fr[2])[1]

\* C8: a non-numeric reading in a mapped entry only drops that entry's
\* field: data_to_packet still returns a packet.
C8_BadReadingStillReturns == ~(RaisedInTranslate /\ exc = "ValueError")

\* C9: absent groups are never an error: for every set of groups present
\* (Solar alone or first included) data_to_packet returns without raising,
\* and the packet holds no field of an absent group.
C9_AbsentGroupsNoError ==
    /\ ~(RaisedInTranslate /\ exc = "UnboundLocalError")
    /\ Translated =>
         \A t \in Titles \ PresentTitles : FieldsOfTitle(t) \cap DOMAIN pkt = {}
    /\ (Translated /\ "Rainfall" \notin PresentTitles) => ~Has(pkt, "rain")

\* C10: if the first k attempts (0 <= k < max_tries) fail with a transport
\* error and attempt k+1 succeeds, get_data returns the document after
\* exactly k logged failures and k retry sleeps, one after each failed
\* attempt and none after the successful one.
C10_RetrySuccessPath ==
    (pc = "data_to_packet" /\ Last(events) = "attempt_ok") =>
        /\ data # None
        /\ data[1] \in Docs
        /\ \E k \in 0..(max_tries - 1) :
             GetDataEvents = FailedAttempts(k) \o <<"attempt_ok">>

C10_Witness ==
    /\ pc = "data_to_packet"
    /\ data # None
    /\ Count(GetDataEvents, {"logerr_attempt"}) = 2
    /\ Count(GetDataEvents, {"sleep_retry"}) = 2

\* get_data has just returned None
ReturnedNone == pc = "data_to_packet" /\ Last(events) = "return_none"

\* C11 as stated: when all 3 attempts fail, get_data returns None after
\* exactly 3 logged failures and exactly 2 retry sleeps.
C11_ThreeLogsTwoDelays ==
    ReturnedNone =>
        /\ data = None
        /\ Count(GetDataEvents, {"logerr_attempt"}) = 3
        /\ Count(GetDataEvents, {"sleep_retry"}) = 2

\* C11 amended: when all 3 attempts fail, get_data returns None after
\* exactly 3 logged failures and exactly 3 retry sleeps, one right after
\* each failed attempt: two of them lie between consecutive attempts and the
\* third follows the last attempt, before the return.
C11_ThreeLogsThreeDelays ==
    ReturnedNone =>
        /\ data = None
        /\ GetDataEvents = FailedAttempts(max_tries) \o <<"return_none">>
        /\ Count(GetDataEvents, {"sleep_retry"}) = 3

C11_Witness ==
    /\ ReturnedNone
    /\ tries = 3
    /\ clock >= 3 * retry_wait

\* C12: the message "failed to get data after N attempts" is logged exactly
\* once in a call of get_data in which all attempts fail, and not at all in
\* a call in which some attempt succeeds.
C12_ExhaustedLoggedOnce ==
    pc = "data_to_packet" =>
        Count(GetDataEvents, {"logerr_exhausted"})
            = (IF Count(GetDataEvents, {"attempt_ok"}) = 0 THEN 1 ELSE 0)

BareFields == {"dateTime", "usUnits"}

\* C13: a pass whose get_data returns None does not stop the loop: it still
\* yields a packet, holding only dateTime and usUnits; last_rain_total keeps
\* its value through the whole pass; and after the poll sleep the next pass
\* starts get_data afresh.
C13_FailedFetchGoesOn ==
    [][/\ ReturnedNone =>
            (pc' = "update" /\ exc' = "" /\ DOMAIN pkt' = BareFields)
       /\ (data = None /\ pc \in {"get_data", "data_to_packet", "update",
                                  "yield", "sleep"}) =>
            last_rain_total' = last_rain_total
       /\ (data = None /\ pc = "update") => pc' = "yield"
       /\ (data = None /\ pc = "yield") =>
            (pc' = "sleep" /\ out' = <<pkt>> /\ DOMAIN pkt = BareFields)
       /\ (data = None /\ pc = "sleep") =>
            (pc' = "get_data" /\ tries' = 0 /\ clock' = clock + poll_interval)
      ]_vars

\* a pass with three failed attempts has yielded its packet, the total of an
\* earlier pass still being there
C13_Witness ==
    /\ pc = "sleep"
    /\ data = None
    /\ Count(GetDataEvents, {"attempt_failed"}) = max_tries
    /\ out # None /\ DOMAIN out[1] = BareFields
    /\ last_rain_total # None

\* C14: data_to_packet always returns a packet with dateTime and usUnits;
\* when the document is None or empty the packet holds only those two,
\* whatever last_rain_total is.
C14_AlwaysATimestampedPacket ==
    /\ ~RaisedInTranslate
    /\ Translated =>
         /\ BareFields \subseteq DOMAIN pkt
         /\ pkt["dateTime"] = clock /\ pkt["usUnits"] = US
         /\ Falsy(data) => DOMAIN pkt = BareFields

\* the part of C14 about the packets that are returned
C14_ReturnedPackets ==
    Translated =>
        /\ BareFields \subseteq DOMAIN pkt
        /\ pkt["dateTime"] = clock /\ pkt["usUnits"] = US
        /\ Falsy(data) => DOMAIN pkt = BareFields

\* the battery status list of the document in data, << >> when there is none
BatteryStatus ==
    IF data = None \/ data[1].battery = None THEN << >>
    ELSE IF data[1].battery[1].list = None THEN << >>
    ELSE data[1].battery[1].list[1]

\* C15: battery rule.  The packet has battery = 0 iff the battery group has
\* a non-empty status list whose first entry is exactly "All battery are ok";
\* for any other first entry, an empty list or no battery group the packet
\* has no battery key, and battery is never anything but 0.
C15_BatteryRule ==
    Translated =>
        /\ Has(pkt, "battery") <=>
             (Len(BatteryStatus) > 0 /\ BatteryStatus[1] = "All battery are ok")
        /\ Has(pkt, "battery") => pkt["battery"] = 0

C15_Witness ==
    /\ Translated
    /\ Has(pkt, "battery")
    /\ BatteryStatus = <<"All battery are ok">>

\* a packet without battery although the document has a status list
C15_WitnessOtherStatus ==
    /\ Translated
    /\ ~Has(pkt, "battery")
    /\ Len(BatteryStatus) > 0

\* the place of an event in a pass: poll sleep, failed attempts of get_data,
\* the end of get_data, translate, update, yield
Rank(ev) ==
    CASE ev = "sleep_poll" -> 0
      [] ev \in {"attempt_failed", "logerr_attempt", "sleep_retry"} -> 1
      [] ev \in {"attempt_ok", "return_none", "logerr_exhausted"} -> 2
      [] ev \in {"translated", "translate_raised"} -> 3
      [] ev = "updated" -> 4
      [] ev = "yielded" -> 5

\* C16: each pass runs fetch, translate (with last_rain_total as it was at
\* the start of the pass), update of last_rain_total, yield, poll sleep, in
\* that order: one packet is yielded per pass, it is the whole result of
\* data_to_packet, last_rain_total is already updated when it is yielded,
\* exactly one poll sleep lies between the yield and the next get_data, and
\* get_data's attempts never overlap.
C16_PassOrder ==
    /\ [](/\ \A i, j \in 1..Len(events) :
                i < j => Rank(events[i]) <= Rank(events[j])
          /\ \A ev \in {"sleep_poll", "attempt_ok", "return_none", "translated",
                        "updated", "yielded"} : Count(events, {ev}) <= 1
          /\ Count(events, {"attempt_ok", "return_none"}) <= 1
          /\ pc = "sleep" =>
                /\ Count(events, {"attempt_ok", "return_none"}) = 1
                /\ Count(events, {"translated"}) = 1
                /\ Count(events, {"updated"}) = 1
                /\ Count(events, {"yielded"}) = 1
                /\ out = <<pkt>>
                /\ Has(pkt, "rain_total") =>
                      last_rain_total = <<pkt["rain_total"]>>)
    /\ [][/\ pc \in {"get_data", "data_to_packet"} =>
                last_rain_total' = last_rain_total
          /\ (pc = "data_to_packet" /\ pc' = "update") =>
                pkt' = data_to_packet(data, last_rain_total, clock).packet
          /\ pc \in {"update", "yield"} => pkt' = pkt
          /\ (pc = "yield" /\ pc' # "yield") =>
                (pc' = "sleep" /\ out' = <<pkt>>)
          /\ pc # "yield" => (out' = out \/ out' = None)
          /\ (pc' = "get_data" /\ pc # "get_data") =>
                /\ pc = "sleep"
                /\ events' = <<"sleep_poll">>
                /\ clock' = clock + poll_interval
                /\ tries' = 0
         ]_vars

\* a second pass has yielded a packet with a rain delta
C16_Witness ==
    /\ pc = "sleep"
    /\ events[1] = "sleep_poll"
    /\ out # None /\ Has(out[1], "rain")
    /\ last_rain_total = <<out[1]["rain_total"]>>

\* the permutations of 1..n
Perms(n) == {p \in [1..n -> 1..n] : \A i, j \in 1..n : i # j => p[i] # p[j]}

\* the document in data with its sensor list reordered by p
Permuted(p) ==
    <<Doc(<<[i \in 1..Len(data[1].sensor[1]) |-> data[1].sensor[1][p[i]]]>>,
          data[1].battery)>>

\* C17: the packet does not depend on the order of the groups in the sensor
\* list: every permutation of the same groups gives the same packet, and the
\* Solar group's Light and UVI become luminosity and UV whatever precedes
\* Solar.
C17_OrderIndependent ==
    (Translated /\ data # None /\ data[1].sensor # None) =>
        /\ \A p \in Perms(Len(data[1].sensor[1])) :
             LET r == data_to_packet(Permuted(p), last_rain_total, clock)
             IN  r.exc = "" /\ r.packet = pkt
        /\ \A e \in SensorEntries :
             /\ (e[1] = "Solar" /\ e[2] = "Light") =>
                  (Has(pkt, "luminosity") /\ pkt["luminosity"] = py_float(e[3])[1])
             /\ (e[1] = "Solar" /\ e[2] = "UVI") =>
                  (Has(pkt, "UV") /\ pkt["UV"] = py_float(e[3])[1])

\* C18: rain conservation.  Between passes (the packet of a pass being
\* yielded, or the pass not having reached its update), the sum of the rain
\* of all packets yielded so far equals last_rain_total minus the first
\* rain total ever reported, and no rain has been yielded while
\* last_rain_total is None: rain that fell during passes without data is
\* attributed to the next pass that reports a Total.
C18_RainConservation ==
    pc # "yield" =>
        IF first_total = None
        THEN last_rain_total = None /\ rain_sum = 0
        ELSE /\ last_rain_total # None
             /\ rain_sum = last_rain_total[1] - first_total[1]

\* a pass that follows a pass without a total has yielded rain
C18_Witness ==
    /\ pc = "sleep"
    /\ prev_total = None
    /\ out # None /\ Has(out[1], "rain")
    /\ rain_sum > 0
    /\ rain_sum = last_rain_total[1] - first_total[1]

\* C19: if the rain totals reported so far never decreased, every rain
\* yielded is >= 0, whatever passes without data lie in between; and there
\* is no clamping: a Total below last_rain_total is yielded as a negative
\* rain.
C19_RainSign ==
    /\ (pc = "sleep" /\ ~decreased /\ out # None /\ Has(out[1], "rain")) =>
         out[1]["rain"] >= 0
    /\ (Translated /\ Has(pkt, "rain_total") /\ last_rain_total # None
          /\ pkt["rain_total"] < last_rain_total[1]) =>
         (Has(pkt, "rain") /\ pkt["rain"] < 0)
    /\ (pc = "sleep" /\ Has(pkt, "rain")) =>
         (out # None /\ Has(out[1], "rain") /\ out[1]["rain"] = pkt["rain"])

\* a counter reset after a pass without data: negative rain is yielded
C19_Witness ==
    /\ pc = "sleep"
    /\ decreased
    /\ prev_total = None
    /\ out # None /\ Has(out[1], "rain") /\ out[1]["rain"] < 0

\* rain >= 0 yielded after a pass without data, the totals never decreasing
C19_WitnessMonotone ==
    /\ pc = "sleep"
    /\ ~decreased
    /\ prev_total = None
    /\ out # None /\ Has(out[1], "rain") /\ out[1]["rain"] > 0

====
